---- MODULE Spec2Model ----
(***************************************************************************)
(* Agent execution loop of go-agent (pkg/goagent/agent/agent.go): one Run  *)
(* of an Agent[T] against a gateway (llm.LLM) and a set of tools.          *)
(* The gateway and the tool functions are the environment: what they       *)
(* return is chosen nondeterministically.  A step of the model is the code *)
(* that Run executes between two calls to the environment.                 *)
(***************************************************************************)
EXTENDS Integers, Sequences, FiniteSets, TLC

VARIABLES tools, limits, defaultToolLimit, systemPrompt,
          pc, Messages, usage, llmMessage, idx, results, err, result,
          calls, toolLog, options,
          runs, states, ledgers,
          cancelled, middlewares, mwIdx, mwLog,
          tool, newTool, resultArgs, newResult, applied

vars == <<tools, limits, defaultToolLimit, systemPrompt,
          pc, Messages, usage, llmMessage, idx, results, err, result,
          calls, toolLog, options, runs, states, ledgers,
          cancelled, middlewares, mwIdx, mwLog, tool, newTool,
          resultArgs, newResult, applied>>

agentVars == <<tools, limits, defaultToolLimit, systemPrompt>>

\* the Runs executing concurrently on one agent, and the AgentState and
\* usage-map objects they allocated
concVars == <<runs, states, ledgers>>

\* the LLMTool under construction and what NewLLMTool returned for it
toolVars == <<tool, newTool>>

\* the arguments of a call of NewAgentResult and what it returned
resultVars == <<resultArgs, newResult>>

\* the cancellation of the context given to Run; the registered middlewares,
\* the position in their chain and the record of their invocations; applied
\* is the sequence of limit options NewAgent applied, in the order it applied
\* them (recorded by the specification of the options only)
extVars == <<cancelled, middlewares, mwIdx, mwLog, toolVars, resultVars,
             applied>>

----------------------------------------------------------------------------
(* Bounds *)

MaxTurns == 2
MaxCalls == 2
MaxLimit == 1
MaxOptions == 3
MaxMiddlewares == 3
LengthMargin == 1
MaxMessages == 3
ConcTurns == 1
ConcCalls == 1

(* Program constants *)

DefaultToolLimit == 3

Names == {"add", "hash"}

\* the limits an option can set: WithToolLimit takes any int, negative too
LimitValues == -1..MaxLimit

\* the templates WithSystemPrompt can set
Templates == {"system", ""}

Inputs == {"{\"num1\":3,\"num2\":5}", "chan"}

StructTexts == {"{\"sum\":8}", "not json"}

----------------------------------------------------------------------------
(* Errors: `is` is the set of sentinels errors.Is reports, `text` the parts *)
(* of the message Error() returns.                                          *)

Nil == [is |-> {}, text |-> <<>>]

New(s) == [is |-> {s}, text |-> <<s>>]

\* fmt.Errorf("%w: %s", w, e): only w stays in the chain, e is formatted
ErrorfWS(w, e) == [is |-> w.is, text |-> w.text \o e.text]

\* fmt.Errorf("%w: %w", w, e): both stay in the chain
ErrorfWW(w, e) == [is |-> w.is \cup e.is, text |-> w.text \o e.text]

\* fmt.Errorf("%w: prefix: %v", w, e): only w stays in the chain
ErrorfWPV(w, prefix, e) == [is |-> w.is, text |-> w.text \o <<prefix>> \o e.text]

\* fmt.Errorf("prefix: %w", e)
ErrorfPW(prefix, e) == [is |-> e.is, text |-> <<prefix>> \o e.text]

ErrLimitReached == New("tool limit reached")
ErrToolError == New("tool error occurred")
ErrLLMCall == New("LLM call error occurred")
ErrToolNotFound == New("tool not found")
ErrInvalidResultSchema == New("invalid result schema")
ErrEmptySystemPrompt == New("system prompt cannot be empty")
ErrStructuredOutput == New("failed to call LLM with structured output")
ErrInvalidArguments == New("invalid arguments")
ErrMiddlewareError == New("middleware error")
ErrAccessDenied == New("access denied")

\* causes produced by the environment
GatewayFailure == New("gateway failure")
ContextCanceled == New("context canceled")
ToolFailure == New("tool failure")
MarshalFailure == New("json: unsupported type")
UnmarshalFailure == New("json: invalid character")
TemplateSyntax == New("template: prompt:1: unclosed action")

\* errors.Is(e, sentinel)
Is(e, sentinel) == sentinel.is \subseteq e.is /\ sentinel.is # {}

\* strings.Contains(e.Error(), cause.Error())
Mentions(e, cause) ==
    \E i \in 1..Len(e.text) :
        /\ i + Len(cause.text) - 1 <= Len(e.text)
        /\ SubSeq(e.text, i, i + Len(cause.text) - 1) = cause.text

----------------------------------------------------------------------------
(* Messages *)

EmptyMap == [n \in {} |-> 0]

NoArgs == [tools |-> {}, tools_usage |-> EmptyMap,
           calling_limits |-> EmptyMap, behavior |-> ""]

EmptyText == [text |-> "", args |-> NoArgs]

Text(s) == [text |-> s, args |-> NoArgs]

NewLLMMessage(msgType, content) ==
    [Type |-> msgType, Content |-> content,
     ToolCalls |-> <<>>, ToolResults |-> <<>>, End |-> FALSE]

NewLLMToolCall(id, toolName) == [ID |-> id, ToolName |-> toolName]

BaseLLMToolResult(id) == [ID |-> id]

NoMessage == NewLLMMessage("", EmptyText)

\* the sequences of tool calls a gateway message can carry (ids 1..n)
ToolCallSeqs ==
    UNION {{[i \in 1..n |-> NewLLMToolCall(i, f[i])] : f \in [1..n -> Names]}
            : n \in 0..MaxCalls}

\* the assistant messages llm.Call can return
GatewayMessages ==
    {[Type |-> "assistant", Content |-> Text("assistant"),
      ToolCalls |-> tc, ToolResults |-> <<>>, End |-> e]
        : tc \in ToolCallSeqs, e \in BOOLEAN}

AddMessage_Prepend(msgs, msg) == <<msg>> \o msgs

AddMessage(msgs, msg) == Append(msgs, msg)

----------------------------------------------------------------------------
(* Tool definitions: a string is known by its number of characters, its    *)
(* number of bytes (len) and whether it matches snakeCasePattern.           *)

maxNameLength == 64
maxDescriptionLength == 1024

\* the lengths tried around a maximum
Lengths(max) == {0, 1} \cup ((max - LengthMargin)..(max + LengthMargin))

\* UTF-8: a character takes one to four bytes; ^[a-z0-9_]+$ matches only
\* non-empty strings of one-byte characters
Strings(max) ==
    {s \in [chars : Lengths(max), bytes : Lengths(max), snake : BOOLEAN] :
        /\ s.chars <= s.bytes
        /\ s.bytes <= 4 * s.chars
        /\ s.snake => (s.chars >= 1 /\ s.bytes = s.chars)}

EmptyString == [chars |-> 0, bytes |-> 0, snake |-> FALSE]

ErrValidationFailed == New("validation failed")

StringIsNotEmpty(s) ==
    IF s = EmptyString
    THEN ErrorfWS(ErrValidationFailed, New("string cannot be empty"))
    ELSE Nil

\* len(s) > max
StringIsMaxLength(s, max) ==
    IF s.bytes > max
    THEN ErrorfWS(ErrValidationFailed,
                  New("string cannot be longer than max characters"))
    ELSE Nil

StringMatchesPattern(s) ==
    IF ~s.snake
    THEN ErrorfWS(ErrValidationFailed, New("string does not match pattern"))
    ELSE Nil

NameIsValid(name) ==
    IF StringIsNotEmpty(name) # Nil THEN StringIsNotEmpty(name)
    ELSE IF StringIsMaxLength(name, maxNameLength) # Nil
    THEN StringIsMaxLength(name, maxNameLength)
    ELSE StringMatchesPattern(name)

DescriptionIsValid(description) ==
    IF StringIsNotEmpty(description) # Nil THEN StringIsNotEmpty(description)
    ELSE StringIsMaxLength(description, maxDescriptionLength)

NotNil(value) ==
    IF value = "nil"
    THEN ErrorfWS(ErrValidationFailed, New("value cannot be nil"))
    ELSE Nil

\* tool := &LLMTool{}
ZeroTool == [Name |-> EmptyString, Description |-> EmptyString,
             ParametersSchema |-> "nil", Call |-> "nil"]

validate(t) ==
    IF NameIsValid(t.Name) # Nil
    THEN ErrorfPW("tool", NameIsValid(t.Name))
    ELSE IF DescriptionIsValid(t.Description) # Nil
    THEN ErrorfPW("description", DescriptionIsValid(t.Description))
    ELSE IF NotNil(t.ParametersSchema) # Nil
    THEN ErrorfPW("parameters schema", NotNil(t.ParametersSchema))
    ELSE IF t.Call = "nil"
    THEN ErrorfPW("call", ErrorfWS(ErrValidationFailed,
                                   New("value cannot be nil")))
    ELSE Nil

\* NewLLMTool has not been called
NotCreated == [called |-> FALSE, tool |-> ZeroTool, err |-> Nil]

\* what NewLLMTool returns after its options configured t
NewLLMToolReturn(t) ==
    IF validate(t) # Nil
    THEN [called |-> TRUE, tool |-> ZeroTool,
          err |-> ErrorfPW("failed to create LLM tool", validate(t))]
    ELSE [called |-> TRUE, tool |-> t, err |-> Nil]

----------------------------------------------------------------------------
(* Prompt rendering *)

\* json.Marshal of a Go map: only the keys that were ever written
Marshal(u) == [n \in {m \in DOMAIN u : u[m] # 0} |-> u[n]]

ZeroUsage == [n \in Names |-> 0]

\* the templates a caller may hand to WithSystemPrompt beyond Templates:
\* "custom" is "... special behavior: {{.Behavior}}", whose placeholder names
\* no key of the arguments, "broken" is a template with an unclosed action
PromptTemplates == Templates \cup {"custom", "broken"}

\* the keys the placeholders of a template name
Placeholders(template) ==
    CASE template = "system" ->
            {"tools", "tools_usage", "calling_limits", "behavior"}
      [] template = "custom" -> {"Behavior"}
      [] OTHER -> {}

\* template.Parse
ParseFails(template) == template = "broken"

Lookup_Empty(args, key) ==
    IF key \in DOMAIN args THEN args[key] ELSE ""

\* tmpl.Execute on a map: a key the map lacks prints as "<no value>"
Lookup(args, key) ==
    IF key \in DOMAIN args THEN args[key] ELSE "<no value>"

\* the error Prompt.Render returns
RenderError(template) ==
    IF ParseFails(template)
    THEN ErrorfPW("failed to parse prompt template", TemplateSyntax)
    ELSE Nil

\* the text Prompt.Render returns: the template with every placeholder
\* substituted; an empty template renders to the empty string
Render(template, args) ==
    IF ParseFails(template) \/ template = "" THEN EmptyText
    ELSE IF Placeholders(template) = {} THEN Text(template)
    ELSE [text |-> template,
          args |-> [k \in Placeholders(template) |-> Lookup(args, k)]]

\* the arguments createSystemPrompt hands to Render
SystemArgs(u) ==
    [tools |-> tools, tools_usage |-> Marshal(u),
     calling_limits |-> limits, behavior |-> "behavior"]

createSystemPrompt(u) == Render(systemPrompt, SystemArgs(u))

createInitStateError_AcceptsEmpty ==
    IF RenderError(systemPrompt) # Nil
    THEN ErrorfPW("failed to create system prompt", RenderError(systemPrompt))
    ELSE Nil

\* createInitState, lines 228-235: the error of the system prompt, if any
createInitStateError ==
    IF RenderError(systemPrompt) # Nil
    THEN ErrorfPW("failed to create system prompt", RenderError(systemPrompt))
    ELSE IF createSystemPrompt(ZeroUsage) = EmptyText
    THEN ErrEmptySystemPrompt
    ELSE Nil

outputPrompt == Render("output", NoArgs)

----------------------------------------------------------------------------
(* Results *)

NilResult == [isNil |-> TRUE, hasData |-> FALSE, Data |-> 0, Messages |-> <<>>]

AgentResult(hasData, data, msgs) ==
    [isNil |-> FALSE, hasData |-> hasData, Data |-> data, Messages |-> msgs]

\* the values a result of type T may hold
ResultValues == {0, 3, 10}

NilData == [isNil |-> TRUE, value |-> 0]

\* data *T: nil or a pointer to a value
DataPointers == {NilData} \cup {[isNil |-> FALSE, value |-> v] : v \in ResultValues}

NoResultArgs == [data |-> NilData, messages |-> <<>>]

\* NewAgentResult has not been called
NotCalled == [called |-> FALSE, result |-> NilResult, err |-> Nil]

NewAgentResult_AcceptsEmptyMessages(data, messages) ==
    IF data.isNil
    THEN [called |-> TRUE, result |-> NilResult,
          err |-> ErrorfWS(ErrInvalidResultSchema, New("data cannot be nil"))]
    ELSE [called |-> TRUE,
          result |-> AgentResult(TRUE, data.value, messages), err |-> Nil]

NewAgentResult(data, messages) ==
    IF data.isNil
    THEN [called |-> TRUE, result |-> NilResult,
          err |-> ErrorfWS(ErrInvalidResultSchema, New("data cannot be nil"))]
    ELSE IF Len(messages) = 0
    THEN [called |-> TRUE, result |-> NilResult,
          err |-> ErrorfWS(ErrInvalidResultSchema,
                           New("messages cannot be empty"))]
    ELSE [called |-> TRUE,
          result |-> AgentResult(TRUE, data.value, messages), err |-> Nil]

\* json.Unmarshal of the structured-output text into T
Unmarshal(text) ==
    IF text = "{\"sum\":8}" THEN [err |-> Nil, val |-> 8]
    ELSE [err |-> UnmarshalFailure, val |-> 0]

----------------------------------------------------------------------------
(* Tool limits *)

GetToolLimit_IgnoreExplicit(name) == defaultToolLimit

GetToolLimit_NormalisesNonPositive(name) ==
    IF name \in DOMAIN limits
    THEN (IF limits[name] <= 0 THEN 1 ELSE limits[name])
    ELSE (IF defaultToolLimit <= 0 THEN 1 ELSE defaultToolLimit)

GetToolLimit(name) ==
    IF name \in DOMAIN limits THEN limits[name] ELSE defaultToolLimit

Incr(u, name) == [u EXCEPT ![name] = @ + 1]

----------------------------------------------------------------------------
(* Tools *)

\* what can happen inside tool.Call: the arguments do not decode, the user
\* function fails, the user function returns its result
Outcomes == {"badargs", "error", "ok"}

NoResult == BaseLLMToolResult(0)

\* tool.Call as WithLLMToolCall builds it: decode the arguments, then run the
\* user function, which returns a result carrying callID
WithLLMToolCall(callID, outcome) ==
    IF outcome = "badargs"
    THEN [executed |-> FALSE, result |-> NoResult,
          err |-> ErrorfWPV(ErrInvalidArguments,
                            "failed to unmarshal arguments", UnmarshalFailure)]
    ELSE IF outcome = "error"
    THEN [executed |-> TRUE, result |-> NoResult, err |-> ToolFailure]
    ELSE [executed |-> TRUE, result |-> BaseLLMToolResult(callID), err |-> Nil]

callToolsStep_LimitOffByOne(toolCall, u, outcome) ==
    IF toolCall.ToolName \notin tools
    THEN [kind |-> "notfound", invoked |-> FALSE, executed |-> FALSE,
          usage |-> u, result |-> NoResult,
          err |-> ErrorfWS(ErrToolNotFound, New(toolCall.ToolName))]
    ELSE IF u[toolCall.ToolName] > GetToolLimit(toolCall.ToolName)
    THEN [kind |-> "limit", invoked |-> FALSE, executed |-> FALSE,
          usage |-> u, result |-> NoResult, err |-> ErrLimitReached]
    ELSE LET ret == WithLLMToolCall(toolCall.ID, outcome) IN
         IF ret.err # Nil
         THEN [kind |-> "toolerror", invoked |-> TRUE,
               executed |-> ret.executed, usage |-> u,
               result |-> NoResult, err |-> ErrorfWS(ErrToolError, ret.err)]
         ELSE [kind |-> "ok", invoked |-> TRUE, executed |-> ret.executed,
               usage |-> Incr(u, toolCall.ToolName),
               result |-> ret.result, err |-> Nil]

callToolsStep_LimitTooEarly(toolCall, u, outcome) ==
    IF toolCall.ToolName \notin tools
    THEN [kind |-> "notfound", invoked |-> FALSE, executed |-> FALSE,
          usage |-> u, result |-> NoResult,
          err |-> ErrorfWS(ErrToolNotFound, New(toolCall.ToolName))]
    ELSE IF u[toolCall.ToolName] + 1 >= GetToolLimit(toolCall.ToolName)
    THEN [kind |-> "limit", invoked |-> FALSE, executed |-> FALSE,
          usage |-> u, result |-> NoResult, err |-> ErrLimitReached]
    ELSE LET ret == WithLLMToolCall(toolCall.ID, outcome) IN
         IF ret.err # Nil
         THEN [kind |-> "toolerror", invoked |-> TRUE,
               executed |-> ret.executed, usage |-> u,
               result |-> NoResult, err |-> ErrorfWS(ErrToolError, ret.err)]
         ELSE [kind |-> "ok", invoked |-> TRUE, executed |-> ret.executed,
               usage |-> Incr(u, toolCall.ToolName),
               result |-> ret.result, err |-> Nil]

callToolsStep_CountBeforeCall(toolCall, u, outcome) ==
    IF toolCall.ToolName \notin tools
    THEN [kind |-> "notfound", invoked |-> FALSE, executed |-> FALSE,
          usage |-> u, result |-> NoResult,
          err |-> ErrorfWS(ErrToolNotFound, New(toolCall.ToolName))]
    ELSE IF u[toolCall.ToolName] >= GetToolLimit(toolCall.ToolName)
    THEN [kind |-> "limit", invoked |-> FALSE, executed |-> FALSE,
          usage |-> u, result |-> NoResult, err |-> ErrLimitReached]
    ELSE LET ret == WithLLMToolCall(toolCall.ID, outcome) IN
         IF ret.err # Nil
         THEN [kind |-> "toolerror", invoked |-> TRUE,
               executed |-> ret.executed, usage |-> Incr(u, toolCall.ToolName),
               result |-> NoResult, err |-> ErrorfWS(ErrToolError, ret.err)]
         ELSE [kind |-> "ok", invoked |-> TRUE, executed |-> ret.executed,
               usage |-> Incr(u, toolCall.ToolName),
               result |-> ret.result, err |-> Nil]

\* One iteration of the loop of callTools on toolCall, with the ledger u;
\* outcome is what happens inside tool.Call when it is reached.
callToolsStep(toolCall, u, outcome) ==
    IF toolCall.ToolName \notin tools
    THEN [kind |-> "notfound", invoked |-> FALSE, executed |-> FALSE,
          usage |-> u, result |-> NoResult,
          err |-> ErrorfWS(ErrToolNotFound, New(toolCall.ToolName))]
    ELSE IF u[toolCall.ToolName] >= GetToolLimit(toolCall.ToolName)
    THEN [kind |-> "limit", invoked |-> FALSE, executed |-> FALSE,
          usage |-> u, result |-> NoResult, err |-> ErrLimitReached]
    ELSE LET ret == WithLLMToolCall(toolCall.ID, outcome) IN
         IF ret.err # Nil
         THEN [kind |-> "toolerror", invoked |-> TRUE,
               executed |-> ret.executed, usage |-> u,
               result |-> NoResult, err |-> ErrorfWS(ErrToolError, ret.err)]
         ELSE [kind |-> "ok", invoked |-> TRUE, executed |-> ret.executed,
               usage |-> Incr(u, toolCall.ToolName),
               result |-> ret.result, err |-> Nil]

AppendResult_Prepend(rs, r) == <<r>> \o rs

\* callTools, line 295: results = append(results, result)
AppendResult(rs, r) == Append(rs, r)

SetToolResults_Dropped(msg, rs) == msg

\* Run, line 209: llmMessage.ToolResults = results
SetToolResults(msg, rs) == [msg EXCEPT !.ToolResults = rs]

RunToolsFailed_NoAppend(msgs, msg, e) ==
    IF Is(e, ErrLimitReached)
    THEN [pc |-> "LIMIT_REACHED", Messages |-> msgs,
          result |-> AgentResult(FALSE, 0, msgs),
          err |-> ErrLimitReached]
    ELSE [pc |-> "FAILED", Messages |-> msgs, result |-> NilResult,
          err |-> ErrorfWS(ErrToolError, e)]

RunToolsFailed_HistoryOnFailure(msgs, msg, e) ==
    IF Is(e, ErrLimitReached)
    THEN [pc |-> "LIMIT_REACHED", Messages |-> AddMessage(msgs, msg),
          result |-> AgentResult(FALSE, 0, AddMessage(msgs, msg)),
          err |-> ErrLimitReached]
    ELSE [pc |-> "FAILED", Messages |-> msgs,
          result |-> AgentResult(FALSE, 0, msgs),
          err |-> ErrorfWS(ErrToolError, e)]

RunToolsFailed_AlwaysPartial(msgs, msg, e) ==
    [pc |-> "LIMIT_REACHED", Messages |-> AddMessage(msgs, msg),
     result |-> AgentResult(FALSE, 0, AddMessage(msgs, msg)),
     err |-> ErrLimitReached]

RunToolsFailed_LimitHidesError(msgs, msg, e) ==
    IF \/ Is(e, ErrLimitReached)
       \/ \E i \in DOMAIN msg.ToolCalls :
             /\ msg.ToolCalls[i].ToolName \in tools
             /\ usage[msg.ToolCalls[i].ToolName]
                   >= GetToolLimit(msg.ToolCalls[i].ToolName)
    THEN [pc |-> "LIMIT_REACHED", Messages |-> AddMessage(msgs, msg),
          result |-> AgentResult(FALSE, 0, AddMessage(msgs, msg)),
          err |-> ErrLimitReached]
    ELSE [pc |-> "FAILED", Messages |-> msgs, result |-> NilResult,
          err |-> ErrorfWS(ErrToolError, e)]

\* Run, lines 196-207: what Run returns when callTools returned e
RunToolsFailed(msgs, msg, e) ==
    IF Is(e, ErrLimitReached)
    THEN [pc |-> "LIMIT_REACHED", Messages |-> AddMessage(msgs, msg),
          result |-> AgentResult(FALSE, 0, AddMessage(msgs, msg)),
          err |-> ErrLimitReached]
    ELSE [pc |-> "FAILED", Messages |-> msgs, result |-> NilResult,
          err |-> ErrorfWS(ErrToolError, e)]

RunCallFailed_PartialResult(e) ==
    [pc |-> "FAILED", result |-> AgentResult(FALSE, 0, Messages),
     err |-> ErrorfWS(ErrLLMCall, e)]

RunCallFailed_Retry(e) ==
    [pc |-> "CALLING_LLM", result |-> NilResult,
     err |-> ErrorfWS(ErrLLMCall, e)]

\* Run, lines 190-192: what Run returns when a.llm.Call returned e
RunCallFailed(e) ==
    [pc |-> "FAILED", result |-> NilResult, err |-> ErrorfWS(ErrLLMCall, e)]

\* llm.CallWithStructuredOutput: the gateway call, then json.Unmarshal of the
\* text it returned
CallWithStructuredOutput(gatewayErr, text) ==
    IF gatewayErr # Nil
    THEN [err |-> ErrorfWW(ErrStructuredOutput, gatewayErr), val |-> 0]
    ELSE IF Unmarshal(text).err # Nil
    THEN [err |-> ErrorfWW(ErrStructuredOutput, Unmarshal(text).err), val |-> 0]
    ELSE [err |-> Nil, val |-> Unmarshal(text).val]

createResultReturn_AppendsAnswer(msgs, out) ==
    IF out.err # Nil
    THEN [pc |-> "FAILED", result |-> NilResult,
          err |-> ErrorfWS(ErrLLMCall, out.err)]
    ELSE [pc |-> "DONE",
          result |-> AgentResult(TRUE, out.val,
                                 Append(msgs, NewLLMMessage("assistant",
                                                            Text("answer")))),
          err |-> Nil]

createResultReturn_Retry(msgs, out) ==
    IF out.err # Nil
    THEN [pc |-> "FINALIZING", result |-> NilResult,
          err |-> ErrorfWS(ErrLLMCall, out.err)]
    ELSE [pc |-> "DONE", result |-> AgentResult(TRUE, out.val, msgs),
          err |-> Nil]

\* createResult, lines 312-319: what it returns for the outcome out of the
\* structured-output call
createResultReturn(msgs, out) ==
    IF out.err # Nil
    THEN [pc |-> "FAILED", result |-> NilResult,
          err |-> ErrorfWS(ErrLLMCall, out.err)]
    ELSE [pc |-> "DONE", result |-> AgentResult(TRUE, out.val, msgs),
          err |-> Nil]

RunAfterTurn_NoRerender(msgs, msg, u) ==
    IF msg.End
    THEN [pc |-> "FINALIZING",
          Messages |-> Append(AddMessage(msgs, msg),
                              NewLLMMessage("user", outputPrompt))]
    ELSE [pc |-> "CALLING_LLM", Messages |-> AddMessage(msgs, msg)]

RunAfterTurn_FinalOnlyWithoutCalls(msgs, msg, u) ==
    IF msg.End /\ msg.ToolCalls = <<>>
    THEN [pc |-> "FINALIZING",
          Messages |-> Append(AddMessage(msgs, msg),
                              NewLLMMessage("user", outputPrompt))]
    ELSE [pc |-> "CALLING_LLM",
          Messages |-> [AddMessage(msgs, msg) EXCEPT
                            ![1].Content = createSystemPrompt(u)]]

\* Run, lines 212-223, with createResult up to its gateway call: the turn is
\* appended, then either the output prompt is appended and the structured
\* call is due, or message 0 is re-rendered and the loop calls the gateway.
RunAfterTurn(msgs, msg, u) ==
    IF msg.End
    THEN [pc |-> "FINALIZING",
          Messages |-> Append(AddMessage(msgs, msg),
                              NewLLMMessage("user", outputPrompt))]
    ELSE [pc |-> "CALLING_LLM",
          Messages |-> [AddMessage(msgs, msg) EXCEPT
                            ![1].Content = createSystemPrompt(u)]]

----------------------------------------------------------------------------
(* Middlewares: the chain every completed turn passes through *)

MwNames == {"A", "B", "C"}

\* what a middleware can do with the message it is given
MwVerdicts == {"observe", "transform", "reject"}

Range(seq) == {seq[i] : i \in DOMAIN seq}

\* Run, lines 214-223: after the turn has been appended, finalise when it
\* is final, otherwise re-render message 0 and call the gateway again
RunContinue(msgs, msg, u) ==
    IF msg.End
    THEN [pc |-> "FINALIZING",
          Messages |-> Append(msgs, NewLLMMessage("user", outputPrompt))]
    ELSE [pc |-> "CALLING_LLM",
          Messages |-> [msgs EXCEPT ![1].Content = createSystemPrompt(u)]]

AfterTurn_ChainBeforeAppend(msgs, msg, u) ==
    IF middlewares = <<>>
    THEN RunAfterTurn(msgs, msg, u)
    ELSE [pc |-> "MIDDLEWARE", Messages |-> msgs]

\* the turn is appended; with middlewares registered it then passes through
\* their chain before Run continues
AfterTurn(msgs, msg, u) ==
    IF middlewares = <<>>
    THEN RunAfterTurn(msgs, msg, u)
    ELSE [pc |-> "MIDDLEWARE", Messages |-> AddMessage(msgs, msg)]

ChainMiddleware_Reversed(i) == middlewares[Len(middlewares) + 1 - i]

\* the i-th middleware the chain invokes: registration order
ChainMiddleware(i) == middlewares[i]

\* the message a middleware returns when it does not reject
MiddlewareOutput(name, verdict, msg) ==
    IF verdict = "transform" THEN [msg EXCEPT !.Content = Text(name)]
    ELSE msg

MiddlewareRejected_AsToolError(e) ==
    [pc |-> "FAILED", result |-> NilResult, err |-> ErrorfWS(ErrToolError, e)]

\* what Run returns when a middleware returned the error e
MiddlewareRejected(e) ==
    [pc |-> "FAILED", result |-> NilResult,
     err |-> ErrorfWS(ErrMiddlewareError, e)]

----------------------------------------------------------------------------
(* Concurrent Runs: what each call of Run holds in its locals *)

RunIds == {1, 2}

\* a call of Run that has not executed anything yet; state and usage are
\* references into states and ledgers, 0 for none
NewRun ==
    [pc |-> "INIT", state |-> 0, usage |-> 0, llmMessage |-> NoMessage,
     idx |-> 0, results |-> <<>>, calls |-> 0, err |-> Nil,
     result |-> NilResult, succeeded |-> ZeroUsage]

NoObjects == [i \in {} |-> 0]

\* obj is stored under the reference ref
Store(heap, ref, obj) ==
    [i \in DOMAIN heap \cup {ref} |-> IF i = ref THEN obj ELSE heap[i]]

\* &AgentState{...} in createInitState: a new object for the call r of Run
NewState(r) == r

NewLedger_OnAgent(r) == 1

\* usage := make(map[string]int) in Run: a new map for the call r of Run
NewLedger(r) == r

MakeUsage_KeepsEarlier(r) ==
    IF DOMAIN ledgers = {} THEN [n \in Names |-> 0]
    ELSE ledgers[CHOOSE i \in DOMAIN ledgers : TRUE]

\* the content of the map make(map[string]int) returns to the call r of Run
MakeUsage(r) == [n \in Names |-> 0]

----------------------------------------------------------------------------
(* NewAgent: the agent with its defaults, then one option per step *)

\* a.limits[name] = limit
SetLimit_FirstWins(lim, name, limit) ==
    [n \in DOMAIN lim \cup {name} |->
        IF n \in DOMAIN lim THEN lim[n] ELSE limit]

SetLimit(lim, name, limit) ==
    [n \in DOMAIN lim \cup {name} |-> IF n = name THEN limit ELSE lim[n]]

Init ==
    /\ tools = {}
    /\ limits = EmptyMap
    /\ defaultToolLimit = DefaultToolLimit
    /\ systemPrompt = "system"
    /\ options \in 0..MaxOptions
    /\ pc = "NEW"
    /\ Messages = <<>>
    /\ usage = ZeroUsage
    /\ llmMessage = NoMessage
    /\ idx = 0
    /\ results = <<>>
    /\ err = Nil
    /\ result = NilResult
    /\ calls = 0
    /\ toolLog = <<>>
    /\ runs = [r \in RunIds |-> NewRun]
    /\ states = NoObjects
    /\ ledgers = NoObjects
    /\ cancelled = FALSE
    /\ middlewares = <<>>
    /\ mwIdx = 1
    /\ mwLog = <<>>
    /\ tool = ZeroTool
    /\ newTool = NotCreated
    /\ resultArgs = NoResultArgs
    /\ newResult = NotCalled
    /\ applied = <<>>

runVars == <<Messages, usage, llmMessage, idx, results, err, result,
             calls, toolLog>>

\* opt(agent) for the next option of NewAgent's loop
ApplyOption ==
    /\ pc = "NEW"
    /\ options > 0
    /\ options' = options - 1
    /\ UNCHANGED <<pc, runVars, concVars, extVars>>

WithTool ==
    /\ ApplyOption
    /\ \E name \in Names : tools' = tools \cup {name}
    /\ UNCHANGED <<limits, defaultToolLimit, systemPrompt>>

WithToolLimit ==
    /\ ApplyOption
    /\ \E name \in Names, limit \in LimitValues :
          limits' = SetLimit(limits, name, limit)
    /\ UNCHANGED <<tools, defaultToolLimit, systemPrompt>>

WithDefaultToolLimit ==
    /\ ApplyOption
    /\ \E limit \in LimitValues : defaultToolLimit' = limit
    /\ UNCHANGED <<tools, limits, systemPrompt>>

WithSystemPrompt ==
    /\ ApplyOption
    /\ \E prompt \in Templates : systemPrompt' = prompt
    /\ UNCHANGED <<tools, limits, defaultToolLimit>>

\* llm.CreateLLM fails: NewAgent returns no agent
NewAgentUnsupportedLLM ==
    /\ pc = "NEW"
    /\ options = 0
    /\ pc' = "NO_AGENT"
    /\ UNCHANGED <<agentVars, options, concVars, extVars, runVars>>

\* NewAgent returns the agent; Run is called on it
NewAgent ==
    /\ pc = "NEW"
    /\ options = 0
    /\ pc' = "INIT"
    /\ UNCHANGED <<agentVars, options, concVars, extVars, runVars>>

\* Run returns (res, e)
Return(state, res, e) ==
    /\ pc' = state
    /\ result' = res
    /\ err' = e

----------------------------------------------------------------------------
(* createInitState and the creation of the ledger, Run lines 181-186 *)

InitRenderError ==
    /\ pc = "INIT"
    /\ RenderError(systemPrompt) # Nil
    /\ Return("FAILED", NilResult, createInitStateError)
    /\ UNCHANGED <<agentVars, options, concVars, extVars, Messages, usage, llmMessage, idx, results,
                   calls, toolLog>>

InitEmptyPrompt ==
    /\ pc = "INIT"
    /\ createInitStateError = ErrEmptySystemPrompt
    /\ Return("FAILED", NilResult, createInitStateError)
    /\ UNCHANGED <<agentVars, options, concVars, extVars, Messages, usage, llmMessage, idx, results,
                   calls, toolLog>>

InitMarshalError ==
    /\ pc = "INIT"
    /\ createInitStateError = Nil
    /\ Return("FAILED", NilResult,
              ErrorfPW("failed to marshal input", MarshalFailure))
    /\ UNCHANGED <<agentVars, options, concVars, extVars, Messages, usage, llmMessage, idx, results,
                   calls, toolLog>>

InitState ==
    /\ pc = "INIT"
    /\ createInitStateError = Nil
    /\ \E input \in Inputs \ {"chan"} :
          Messages' = <<NewLLMMessage("system", createSystemPrompt(ZeroUsage)),
                        NewLLMMessage("user", Text(input))>>
    /\ usage' = ZeroUsage
    /\ pc' = "CALLING_LLM"
    /\ UNCHANGED <<agentVars, options, concVars, extVars, llmMessage, idx, results, err, result,
                   calls, toolLog>>

----------------------------------------------------------------------------
(* a.llm.Call, Run lines 189-194 and, for a turn without tool calls, 212-223 *)

CallFailure_IgnoresContext == GatewayFailure

\* the error of a gateway call that fails: the client is given ctx and
\* fails with the context's error once ctx is cancelled
CallFailure ==
    IF cancelled THEN ErrorfPW("OpenAI API call failed", ContextCanceled)
    ELSE GatewayFailure

CallLLMError ==
    /\ pc = "CALLING_LLM"
    /\ calls < MaxTurns
    /\ calls' = calls + 1
    /\ LET ret == RunCallFailed(CallFailure) IN
          Return(ret.pc, ret.result, ret.err)
    /\ UNCHANGED <<agentVars, options, concVars, extVars, Messages, usage, llmMessage, idx, results,
                   toolLog>>

CallLLMToolCalls ==
    /\ pc = "CALLING_LLM"
    /\ ~cancelled
    /\ calls < MaxTurns
    /\ \E msg \in GatewayMessages :
          /\ msg.ToolCalls # <<>>
          /\ llmMessage' = msg
    /\ calls' = calls + 1
    /\ pc' = "DISPATCHING_TOOLS"
    /\ idx' = 1
    /\ results' = <<>>
    /\ UNCHANGED <<agentVars, options, concVars, extVars, Messages, usage, err, result, toolLog>>

CallLLMNoToolCalls ==
    /\ pc = "CALLING_LLM"
    /\ ~cancelled
    /\ calls < MaxTurns
    /\ \E msg \in GatewayMessages :
          /\ msg.ToolCalls = <<>>
          /\ llmMessage' = msg
          /\ LET next == AfterTurn(Messages, msg, usage) IN
                /\ pc' = next.pc
                /\ Messages' = next.Messages
    /\ calls' = calls + 1
    /\ UNCHANGED <<agentVars, options, concVars, extVars, usage, idx, results, err, result, toolLog>>

----------------------------------------------------------------------------
(* callTools: one iteration of its loop per step, lines 277-296; the last  *)
(* iteration continues through Run lines 209-223                           *)

currentToolCall == llmMessage.ToolCalls[idx]

\* toolLog has one entry per invocation of tool.Call; executed tells whether
\* the user function ran in it
Logged(outcome, executed) ==
    Append(toolLog, [turn |-> calls, call |-> idx,
                     name |-> currentToolCall.ToolName, outcome |-> outcome,
                     executed |-> executed])

DispatchFailed(r) ==
    LET ret == RunToolsFailed(Messages, llmMessage, r.err) IN
        /\ Return(ret.pc, ret.result, ret.err)
        /\ Messages' = ret.Messages
        /\ usage' = r.usage
        /\ UNCHANGED <<agentVars, options, concVars, extVars, llmMessage, idx, results, calls>>

DispatchToolNotFound ==
    /\ pc = "DISPATCHING_TOOLS"
    /\ LET r == callToolsStep(currentToolCall, usage, "ok") IN
          /\ r.kind = "notfound"
          /\ DispatchFailed(r)
          /\ toolLog' = toolLog

DispatchLimitReached ==
    /\ pc = "DISPATCHING_TOOLS"
    /\ LET r == callToolsStep(currentToolCall, usage, "ok") IN
          /\ r.kind = "limit"
          /\ DispatchFailed(r)
          /\ toolLog' = toolLog

DispatchToolError ==
    /\ pc = "DISPATCHING_TOOLS"
    /\ \E outcome \in Outcomes \ {"ok"} :
          LET r == callToolsStep(currentToolCall, usage, outcome) IN
              /\ r.kind = "toolerror"
              /\ DispatchFailed(r)
              /\ toolLog' = IF r.invoked THEN Logged(outcome, r.executed)
                                         ELSE toolLog

DispatchToolOK ==
    /\ pc = "DISPATCHING_TOOLS"
    /\ LET r == callToolsStep(currentToolCall, usage, "ok") IN
          /\ r.kind = "ok"
          /\ usage' = r.usage
          /\ toolLog' = IF r.invoked THEN Logged("ok", r.executed) ELSE toolLog
          /\ results' = AppendResult(results, r.result)
          /\ IF idx < Len(llmMessage.ToolCalls)
             THEN /\ idx' = idx + 1
                  /\ UNCHANGED <<pc, Messages, llmMessage>>
             ELSE /\ idx' = idx
                  /\ llmMessage' = SetToolResults(llmMessage, results')
                  /\ LET next == AfterTurn(Messages, llmMessage', r.usage) IN
                        /\ pc' = next.pc
                        /\ Messages' = next.Messages
    /\ UNCHANGED <<agentVars, options, concVars, extVars, err, result, calls>>

----------------------------------------------------------------------------
(* createResult from its gateway call on, lines 311-319 *)

StructuredOutputError ==
    /\ pc = "FINALIZING"
    /\ LET ret == createResultReturn(Messages,
                      CallWithStructuredOutput(CallFailure, "")) IN
          Return(ret.pc, ret.result, ret.err)
    /\ UNCHANGED <<agentVars, options, concVars, extVars, Messages, usage, llmMessage, idx, results,
                   calls, toolLog>>

StructuredOutputMalformed ==
    /\ pc = "FINALIZING"
    /\ ~cancelled
    /\ \E text \in StructTexts :
          /\ Unmarshal(text).err # Nil
          /\ LET ret == createResultReturn(Messages,
                            CallWithStructuredOutput(Nil, text)) IN
                Return(ret.pc, ret.result, ret.err)
    /\ UNCHANGED <<agentVars, options, concVars, extVars, Messages, usage, llmMessage, idx, results,
                   calls, toolLog>>

StructuredOutputDecoded ==
    /\ pc = "FINALIZING"
    /\ ~cancelled
    /\ \E text \in StructTexts :
          /\ Unmarshal(text).err = Nil
          /\ LET ret == createResultReturn(Messages,
                            CallWithStructuredOutput(Nil, text)) IN
                Return(ret.pc, ret.result, ret.err)
    /\ UNCHANGED <<agentVars, options, concVars, extVars, Messages, usage, llmMessage, idx, results,
                   calls, toolLog>>

----------------------------------------------------------------------------

Next ==
    \/ WithTool
    \/ WithToolLimit
    \/ WithDefaultToolLimit
    \/ WithSystemPrompt
    \/ NewAgentUnsupportedLLM
    \/ NewAgent
    \/ InitEmptyPrompt
    \/ InitMarshalError
    \/ InitState
    \/ CallLLMError
    \/ CallLLMToolCalls
    \/ CallLLMNoToolCalls
    \/ DispatchToolNotFound
    \/ DispatchLimitReached
    \/ DispatchToolError
    \/ DispatchToolOK
    \/ StructuredOutputError
    \/ StructuredOutputMalformed
    \/ StructuredOutputDecoded

Spec == Init /\ [][Next]_vars

TypeOK ==
    /\ tools \subseteq Names
    /\ DOMAIN limits \subseteq Names
    /\ pc \in {"NEW", "NO_AGENT", "INIT", "CALLING_LLM", "DISPATCHING_TOOLS",
               "MIDDLEWARE", "FINALIZING",
               "DONE", "FAILED", "LIMIT_REACHED"}
    /\ usage \in [Names -> Nat]
    /\ calls \in 0..MaxTurns

----------------------------------------------------------------------------
(* Two calls of Run on the same agent, interleaved at the calls to the     *)
(* gateway and to the tools.  The agent is read, never written.            *)

baseVars == <<agentVars, options, pc, runVars, extVars>>

\* the conversation and the ledger the call r of Run works on
History(r) == IF runs[r].state = 0 THEN <<>> ELSE states[runs[r].state]

Ledger(r) == IF runs[r].usage = 0 THEN ZeroUsage ELSE ledgers[runs[r].usage]

\* the assistant messages llm.Call can return to a concurrent Run
ConcGatewayMessages ==
    {msg \in GatewayMessages : Len(msg.ToolCalls) <= ConcCalls}

ConcInit ==
    /\ tools = {"add"}
    /\ limits \in {EmptyMap} \cup {[n \in {"add"} |-> l] : l \in 0..MaxLimit}
    /\ defaultToolLimit = DefaultToolLimit
    /\ systemPrompt = "system"
    /\ options = 0
    /\ pc = "INIT"
    /\ Messages = <<>>
    /\ usage = ZeroUsage
    /\ llmMessage = NoMessage
    /\ idx = 0
    /\ results = <<>>
    /\ err = Nil
    /\ result = NilResult
    /\ calls = 0
    /\ toolLog = <<>>
    /\ runs = [r \in RunIds |-> NewRun]
    /\ states = NoObjects
    /\ ledgers = NoObjects
    /\ cancelled = FALSE
    /\ middlewares = <<>>
    /\ mwIdx = 1
    /\ mwLog = <<>>
    /\ tool = ZeroTool
    /\ newTool = NotCreated
    /\ resultArgs = NoResultArgs
    /\ newResult = NotCalled
    /\ applied = <<>>

\* Run, lines 181-186: createInitState and the creation of the ledger
ConcCreateInitState(r) ==
    /\ runs[r].pc = "INIT"
    /\ \E input \in Inputs :
          IF createInitStateError # Nil
          THEN /\ runs' = [runs EXCEPT ![r].pc = "FAILED",
                                       ![r].err = createInitStateError]
               /\ UNCHANGED <<states, ledgers>>
          ELSE IF input = "chan"
          THEN /\ runs' = [runs EXCEPT
                             ![r].pc = "FAILED",
                             ![r].err = ErrorfPW("failed to marshal input",
                                                 MarshalFailure)]
               /\ UNCHANGED <<states, ledgers>>
          ELSE /\ states' =
                     Store(states, NewState(r),
                           <<NewLLMMessage("system",
                                           createSystemPrompt(ZeroUsage)),
                             NewLLMMessage("user", Text(input))>>)
               /\ ledgers' = Store(ledgers, NewLedger(r), MakeUsage(r))
               /\ runs' = [runs EXCEPT ![r].pc = "CALLING_LLM",
                                       ![r].state = NewState(r),
                                       ![r].usage = NewLedger(r)]
    /\ UNCHANGED baseVars

\* a.llm.Call returns an error
ConcCallLLMError(r) ==
    /\ runs[r].pc = "CALLING_LLM"
    /\ runs[r].calls < ConcTurns
    /\ LET ret == RunCallFailed(GatewayFailure) IN
          runs' = [runs EXCEPT ![r].pc = ret.pc,
                               ![r].result = ret.result,
                               ![r].err = ret.err,
                               ![r].calls = @ + 1]
    /\ UNCHANGED <<states, ledgers, baseVars>>

\* a.llm.Call returns a message
ConcCallLLM(r) ==
    /\ runs[r].pc = "CALLING_LLM"
    /\ runs[r].calls < ConcTurns
    /\ \E msg \in ConcGatewayMessages :
          IF msg.ToolCalls # <<>>
          THEN /\ runs' = [runs EXCEPT ![r].pc = "DISPATCHING_TOOLS",
                                       ![r].llmMessage = msg,
                                       ![r].idx = 1,
                                       ![r].results = <<>>,
                                       ![r].calls = @ + 1]
               /\ UNCHANGED states
          ELSE LET next == RunAfterTurn(History(r), msg, Ledger(r)) IN
                  /\ runs' = [runs EXCEPT ![r].pc = next.pc,
                                          ![r].llmMessage = msg,
                                          ![r].calls = @ + 1]
                  /\ states' = [states EXCEPT ![runs[r].state] = next.Messages]
    /\ UNCHANGED <<ledgers, baseVars>>

\* one iteration of the loop of callTools in the call r of Run
ConcDispatch(r) ==
    /\ runs[r].pc = "DISPATCHING_TOOLS"
    /\ \E outcome \in Outcomes :
          LET msg == runs[r].llmMessage
              call == msg.ToolCalls[runs[r].idx]
              step == callToolsStep(call, Ledger(r), outcome)
              rs == AppendResult(runs[r].results, step.result)
              done == SetToolResults(msg, rs)
              next == RunAfterTurn(History(r), done, step.usage)
              ret == RunToolsFailed(History(r), msg, step.err)
          IN  /\ ledgers' = [ledgers EXCEPT ![runs[r].usage] = step.usage]
              /\ IF step.kind # "ok"
                 THEN /\ runs' = [runs EXCEPT ![r].pc = ret.pc,
                                              ![r].result = ret.result,
                                              ![r].err = ret.err]
                      /\ states' = [states EXCEPT
                                       ![runs[r].state] = ret.Messages]
                 ELSE IF runs[r].idx < Len(msg.ToolCalls)
                 THEN /\ runs' = [runs EXCEPT
                                     ![r].idx = @ + 1,
                                     ![r].results = rs,
                                     ![r].succeeded = Incr(@, call.ToolName)]
                      /\ UNCHANGED states
                 ELSE /\ runs' = [runs EXCEPT
                                     ![r].pc = next.pc,
                                     ![r].results = rs,
                                     ![r].llmMessage = done,
                                     ![r].succeeded = Incr(@, call.ToolName)]
                      /\ states' = [states EXCEPT
                                       ![runs[r].state] = next.Messages]
    /\ UNCHANGED baseVars

\* createResult from its gateway call on
ConcStructuredOutput(r) ==
    /\ runs[r].pc = "FINALIZING"
    /\ \E gatewayErr \in {Nil, GatewayFailure}, text \in StructTexts :
          LET ret == createResultReturn(History(r),
                         CallWithStructuredOutput(gatewayErr, text)) IN
              runs' = [runs EXCEPT ![r].pc = ret.pc,
                                   ![r].result = ret.result,
                                   ![r].err = ret.err]
    /\ UNCHANGED <<states, ledgers, baseVars>>

ConcNext ==
    \E r \in RunIds :
        \/ ConcCreateInitState(r)
        \/ ConcCallLLMError(r)
        \/ ConcCallLLM(r)
        \/ ConcDispatch(r)
        \/ ConcStructuredOutput(r)

SpecConc == ConcInit /\ [][ConcNext]_vars

----------------------------------------------------------------------------
(* A Run whose context can be cancelled by the caller at any moment.  Run  *)
(* hands ctx to the gateway calls only: tool.Call takes no context and the *)
(* loop never tests ctx.                                                   *)

CtxInit ==
    /\ tools = {"add"}
    /\ limits \in {EmptyMap} \cup {[n \in {"add"} |-> l] : l \in 0..MaxLimit}
    /\ defaultToolLimit = DefaultToolLimit
    /\ systemPrompt \in Templates
    /\ options = 0
    /\ pc = "INIT"
    /\ Messages = <<>>
    /\ usage = ZeroUsage
    /\ llmMessage = NoMessage
    /\ idx = 0
    /\ results = <<>>
    /\ err = Nil
    /\ result = NilResult
    /\ calls = 0
    /\ toolLog = <<>>
    /\ runs = [r \in RunIds |-> NewRun]
    /\ states = NoObjects
    /\ ledgers = NoObjects
    /\ cancelled \in BOOLEAN
    /\ middlewares = <<>>
    /\ mwIdx = 1
    /\ mwLog = <<>>
    /\ tool = ZeroTool
    /\ newTool = NotCreated
    /\ resultArgs = NoResultArgs
    /\ newResult = NotCalled
    /\ applied = <<>>

\* the caller cancels ctx while Run executes
Cancel ==
    /\ ~cancelled
    /\ pc \in {"INIT", "CALLING_LLM", "DISPATCHING_TOOLS", "FINALIZING"}
    /\ cancelled' = TRUE
    /\ UNCHANGED <<agentVars, options, pc, runVars, concVars,
                   middlewares, mwIdx, mwLog, toolVars, resultVars, applied>>

CtxNext ==
    \/ Cancel
    \/ InitEmptyPrompt
    \/ InitMarshalError
    \/ InitState
    \/ CallLLMError
    \/ CallLLMToolCalls
    \/ CallLLMNoToolCalls
    \/ DispatchToolNotFound
    \/ DispatchLimitReached
    \/ DispatchToolError
    \/ DispatchToolOK
    \/ StructuredOutputError
    \/ StructuredOutputMalformed
    \/ StructuredOutputDecoded

SpecCtx == CtxInit /\ [][CtxNext]_vars

----------------------------------------------------------------------------
(* NewLLMTool: the options configure a zero LLMTool in the order they are  *)
(* given, then the tool is validated.                                      *)

ToolInit ==
    /\ tools = {}
    /\ limits = EmptyMap
    /\ defaultToolLimit = DefaultToolLimit
    /\ systemPrompt = "system"
    /\ options = 0
    /\ pc = "NEW"
    /\ Messages = <<>>
    /\ usage = ZeroUsage
    /\ llmMessage = NoMessage
    /\ idx = 0
    /\ results = <<>>
    /\ err = Nil
    /\ result = NilResult
    /\ calls = 0
    /\ toolLog = <<>>
    /\ runs = [r \in RunIds |-> NewRun]
    /\ states = NoObjects
    /\ ledgers = NoObjects
    /\ cancelled = FALSE
    /\ middlewares = <<>>
    /\ mwIdx = 1
    /\ mwLog = <<>>
    /\ tool = ZeroTool
    /\ newTool = NotCreated
    /\ resultArgs = NoResultArgs
    /\ newResult = NotCalled
    /\ applied = <<>>

notToolVars == <<agentVars, options, pc, runVars, concVars,
                 cancelled, middlewares, mwIdx, mwLog, resultVars, applied>>

WithLLMToolName ==
    /\ ~newTool.called
    /\ \E name \in Strings(maxNameLength) :
          tool' = [tool EXCEPT !.Name = name]
    /\ UNCHANGED <<newTool, notToolVars>>

WithLLMToolDescription ==
    /\ ~newTool.called
    /\ \E description \in Strings(maxDescriptionLength) :
          /\ ~description.snake
          /\ tool' = [tool EXCEPT !.Description = description]
    /\ UNCHANGED <<newTool, notToolVars>>

\* tool.ParametersSchema = new(T)
WithLLMToolParametersSchema ==
    /\ ~newTool.called
    /\ tool' = [tool EXCEPT !.ParametersSchema = "schema"]
    /\ UNCHANGED <<newTool, notToolVars>>

\* tool.Call = func(callID string, args string) ...
WithLLMToolCallOption ==
    /\ ~newTool.called
    /\ tool' = [tool EXCEPT !.Call = "func"]
    /\ UNCHANGED <<newTool, notToolVars>>

NewLLMTool ==
    /\ ~newTool.called
    /\ newTool' = NewLLMToolReturn(tool)
    /\ UNCHANGED <<tool, notToolVars>>

ToolNext ==
    \/ WithLLMToolName
    \/ WithLLMToolDescription
    \/ WithLLMToolParametersSchema
    \/ WithLLMToolCallOption
    \/ NewLLMTool

SpecTool == ToolInit /\ [][ToolNext]_vars

----------------------------------------------------------------------------
(* NewAgentResult called on any data pointer and any short list of messages *)

ArgMessages == {NewLLMMessage("user", Text("Test message")),
                NewLLMMessage("assistant", Text("assistant"))}

MessageLists ==
    UNION {[1..n -> ArgMessages] : n \in 0..MaxMessages}

ResultInit ==
    /\ tools = {}
    /\ limits = EmptyMap
    /\ defaultToolLimit = DefaultToolLimit
    /\ systemPrompt = "system"
    /\ options = 0
    /\ pc = "NEW"
    /\ Messages = <<>>
    /\ usage = ZeroUsage
    /\ llmMessage = NoMessage
    /\ idx = 0
    /\ results = <<>>
    /\ err = Nil
    /\ result = NilResult
    /\ calls = 0
    /\ toolLog = <<>>
    /\ runs = [r \in RunIds |-> NewRun]
    /\ states = NoObjects
    /\ ledgers = NoObjects
    /\ cancelled = FALSE
    /\ middlewares = <<>>
    /\ mwIdx = 1
    /\ mwLog = <<>>
    /\ tool = ZeroTool
    /\ newTool = NotCreated
    /\ resultArgs \in [data : DataPointers, messages : MessageLists]
    /\ newResult = NotCalled
    /\ applied = <<>>

CallNewAgentResult ==
    /\ ~newResult.called
    /\ newResult' = NewAgentResult(resultArgs.data, resultArgs.messages)
    /\ UNCHANGED <<agentVars, options, pc, runVars, concVars, cancelled,
                   middlewares, mwIdx, mwLog, toolVars, resultArgs, applied>>

ResultNext == CallNewAgentResult

SpecResult == ResultInit /\ [][ResultNext]_vars

----------------------------------------------------------------------------
(* The limit options of NewAgent, applied in any order and recorded.       *)

OptsInit ==
    /\ tools = Names
    /\ limits = EmptyMap
    /\ defaultToolLimit = DefaultToolLimit
    /\ systemPrompt = "system"
    /\ options \in 0..MaxOptions
    /\ pc = "NEW"
    /\ Messages = <<>>
    /\ usage = ZeroUsage
    /\ llmMessage = NoMessage
    /\ idx = 0
    /\ results = <<>>
    /\ err = Nil
    /\ result = NilResult
    /\ calls = 0
    /\ toolLog = <<>>
    /\ runs = [r \in RunIds |-> NewRun]
    /\ states = NoObjects
    /\ ledgers = NoObjects
    /\ cancelled = FALSE
    /\ middlewares = <<>>
    /\ mwIdx = 1
    /\ mwLog = <<>>
    /\ tool = ZeroTool
    /\ newTool = NotCreated
    /\ resultArgs = NoResultArgs
    /\ newResult = NotCalled
    /\ applied = <<>>

\* opt(agent) for the next option of NewAgent's loop, the option recorded
RecordOption(opt) ==
    /\ pc = "NEW"
    /\ options > 0
    /\ options' = options - 1
    /\ applied' = Append(applied, opt)
    /\ UNCHANGED <<pc, runVars, concVars, cancelled, middlewares, mwIdx,
                   mwLog, toolVars, resultVars>>

OptToolLimit ==
    /\ \E name \in Names, limit \in LimitValues :
          /\ limits' = SetLimit(limits, name, limit)
          /\ RecordOption([kind |-> "limit", name |-> name, limit |-> limit])
    /\ UNCHANGED <<tools, defaultToolLimit, systemPrompt>>

OptDefaultToolLimit ==
    /\ \E limit \in LimitValues :
          /\ defaultToolLimit' = limit
          /\ RecordOption([kind |-> "default", name |-> "", limit |-> limit])
    /\ UNCHANGED <<tools, limits, systemPrompt>>

OptsNext ==
    \/ OptToolLimit
    \/ OptDefaultToolLimit

SpecOpts == OptsInit /\ [][OptsNext]_vars

----------------------------------------------------------------------------
(* A Run of an agent whose system prompt is any of the prompt templates.   *)

TplInit ==
    /\ tools = {"add"}
    /\ limits \in {EmptyMap} \cup {[n \in {"add"} |-> l] : l \in 0..MaxLimit}
    /\ defaultToolLimit = DefaultToolLimit
    /\ systemPrompt \in PromptTemplates
    /\ options = 0
    /\ pc = "INIT"
    /\ Messages = <<>>
    /\ usage = ZeroUsage
    /\ llmMessage = NoMessage
    /\ idx = 0
    /\ results = <<>>
    /\ err = Nil
    /\ result = NilResult
    /\ calls = 0
    /\ toolLog = <<>>
    /\ runs = [r \in RunIds |-> NewRun]
    /\ states = NoObjects
    /\ ledgers = NoObjects
    /\ cancelled = FALSE
    /\ middlewares = <<>>
    /\ mwIdx = 1
    /\ mwLog = <<>>
    /\ tool = ZeroTool
    /\ newTool = NotCreated
    /\ resultArgs = NoResultArgs
    /\ newResult = NotCalled
    /\ applied = <<>>

TplNext ==
    \/ InitRenderError
    \/ InitEmptyPrompt
    \/ InitMarshalError
    \/ InitState
    \/ CallLLMError
    \/ CallLLMToolCalls
    \/ CallLLMNoToolCalls
    \/ DispatchToolNotFound
    \/ DispatchLimitReached
    \/ DispatchToolError
    \/ DispatchToolOK
    \/ StructuredOutputError
    \/ StructuredOutputMalformed
    \/ StructuredOutputDecoded

SpecTpl == TplInit /\ [][TplNext]_vars

----------------------------------------------------------------------------
(* An agent with middlewares: NewAgent registers them in the order of its  *)
(* options, and every turn of Run that has been appended passes through    *)
(* their chain.                                                            *)

MwInit ==
    /\ tools = {"add"}
    /\ limits = [n \in {"add"} |-> MaxLimit]
    /\ defaultToolLimit = DefaultToolLimit
    /\ systemPrompt = "system"
    /\ options \in 0..MaxMiddlewares
    /\ pc = "NEW"
    /\ Messages = <<>>
    /\ usage = ZeroUsage
    /\ llmMessage = NoMessage
    /\ idx = 0
    /\ results = <<>>
    /\ err = Nil
    /\ result = NilResult
    /\ calls = 0
    /\ toolLog = <<>>
    /\ runs = [r \in RunIds |-> NewRun]
    /\ states = NoObjects
    /\ ledgers = NoObjects
    /\ cancelled = FALSE
    /\ middlewares = <<>>
    /\ mwIdx = 1
    /\ mwLog = <<>>
    /\ tool = ZeroTool
    /\ newTool = NotCreated
    /\ resultArgs = NoResultArgs
    /\ newResult = NotCalled
    /\ applied = <<>>

\* a.middlewares = append(a.middlewares, middleware)
WithMiddleware ==
    /\ pc = "NEW"
    /\ options > 0
    /\ options' = options - 1
    /\ \E name \in MwNames \ Range(middlewares) :
          middlewares' = Append(middlewares, name)
    /\ UNCHANGED <<agentVars, pc, runVars, concVars, cancelled, mwIdx, mwLog,
                   toolVars, resultVars, applied>>

MwLogged(verdict) ==
    Append(mwLog, [turn |-> calls, pos |-> mwIdx, mw |-> ChainMiddleware(mwIdx),
                   input |-> llmMessage.Content.text, verdict |-> verdict])

\* the next middleware of the chain returns a message; after the last one
\* Run continues with the test of End
MwInvoke ==
    /\ pc = "MIDDLEWARE"
    /\ \E verdict \in MwVerdicts \ {"reject"} :
          LET out == MiddlewareOutput(ChainMiddleware(mwIdx), verdict,
                                      llmMessage)
              next == RunContinue(Messages, out, usage)
          IN  /\ llmMessage' = out
              /\ mwLog' = MwLogged(verdict)
              /\ IF mwIdx < Len(middlewares)
                 THEN /\ mwIdx' = mwIdx + 1
                      /\ UNCHANGED <<pc, Messages>>
                 ELSE /\ mwIdx' = 1
                      /\ pc' = next.pc
                      /\ Messages' = next.Messages
    /\ UNCHANGED <<agentVars, options, concVars, cancelled, middlewares, toolVars, resultVars, applied,
                   usage, idx, results, err, result, calls, toolLog>>

\* the next middleware of the chain returns an error
MwReject ==
    /\ pc = "MIDDLEWARE"
    /\ LET ret == MiddlewareRejected(ErrAccessDenied) IN
          Return(ret.pc, ret.result, ret.err)
    /\ mwLog' = MwLogged("reject")
    /\ mwIdx' = 1
    /\ UNCHANGED <<agentVars, options, concVars, cancelled, middlewares, toolVars, resultVars, applied,
                   Messages, usage, llmMessage, idx, results, calls, toolLog>>

MwNext ==
    \/ WithMiddleware
    \/ NewAgentUnsupportedLLM
    \/ NewAgent
    \/ InitMarshalError
    \/ InitState
    \/ CallLLMError
    \/ CallLLMToolCalls
    \/ CallLLMNoToolCalls
    \/ DispatchToolNotFound
    \/ DispatchLimitReached
    \/ DispatchToolError
    \/ DispatchToolOK
    \/ MwInvoke
    \/ MwReject
    \/ StructuredOutputError
    \/ StructuredOutputMalformed
    \/ StructuredOutputDecoded

SpecMw == MwInit /\ [][MwNext]_vars

----------------------------------------------------------------------------
(* Observations used by the properties *)

Last(seq) == seq[Len(seq)]

\* number of times the invoke function of tool n was started
Invoked(n) == Cardinality({i \in DOMAIN toolLog : toolLog[i].name = n})

\* number of invocations of tool n that returned without error
Succeeded(n) ==
    Cardinality({i \in DOMAIN toolLog :
                    toolLog[i].name = n /\ toolLog[i].outcome = "ok"})

ToolNamesOf(msg) == [i \in DOMAIN msg.ToolCalls |-> msg.ToolCalls[i].ToolName]

Terminal == pc \in {"DONE", "FAILED", "LIMIT_REACHED"}

----------------------------------------------------------------------------
\* C1: for every tool name n, in every state of a Run, the ledger satisfies
\* ledger[n] <= limit(n), limit(n) being the explicit limit of n or else the
\* default limit.
C1_LedgerWithinLimit ==
    pc \notin {"NEW", "NO_AGENT", "INIT"} => \A n \in Names : usage[n] <= GetToolLimit(n)

\* C2: a dispatch of a registered tool whose ledger count is >= its limit
\* yields LimitReached, does not call the tool's invoke function and leaves
\* the ledger unchanged.
C2_LimitCheckBlocks ==
    [][(/\ pc = "DISPATCHING_TOOLS"
        /\ currentToolCall.ToolName \in tools
        /\ usage[currentToolCall.ToolName]
              >= GetToolLimit(currentToolCall.ToolName))
       => (/\ pc' = "LIMIT_REACHED"
           /\ Is(err', ErrLimitReached)
           /\ toolLog' = toolLog
           /\ usage' = usage)]_vars

C2_Witness ==
    /\ pc = "LIMIT_REACHED"
    /\ usage[currentToolCall.ToolName] = GetToolLimit(currentToolCall.ToolName)
    /\ usage[currentToolCall.ToolName] >= 1

\* C3: when the k-th call of a turn is the first to hit its limit, the calls
\* k+1.. of the turn are never dispatched and Run returns ErrLimitReached
\* with a non-nil result without Data whose history is the history before
\* the turn plus that one assistant message; for a first turn [add, add] with
\* limit(add) = 1 the history has length 3 and add was invoked exactly once.
C3_LimitAbort ==
    [][/\ (pc = "DISPATCHING_TOOLS" /\ pc' = "LIMIT_REACHED")
           => /\ err' = ErrLimitReached
              /\ ~result'.isNil
              /\ ~result'.hasData
              /\ Len(result'.Messages) = Len(Messages) + 1
              /\ SubSeq(result'.Messages, 1, Len(Messages)) = Messages
              /\ Last(result'.Messages).Type = "assistant"
              /\ Last(result'.Messages).ToolCalls = llmMessage.ToolCalls
              /\ Last(result'.Messages).Content = llmMessage.Content
              /\ toolLog' = toolLog
              /\ \A i \in DOMAIN toolLog :
                    toolLog[i].turn = calls
                        => toolLog[i].call < idx /\ toolLog[i].outcome = "ok"
              /\ calls = 1 => Len(result'.Messages) = 3
              /\ (/\ calls = 1
                  /\ ToolNamesOf(llmMessage) = <<"add", "add">>
                  /\ GetToolLimit("add") = 1)
                    => idx = 2 /\ Invoked("add")' = 1
       /\ pc = "LIMIT_REACHED" => vars' = vars]_vars

C3_Witness ==
    /\ pc = "LIMIT_REACHED"
    /\ calls = 1
    /\ ToolNamesOf(llmMessage) = <<"add", "add">>
    /\ GetToolLimit("add") = 1
    /\ Len(result.Messages) = 3
    /\ Invoked("add") = 1

\* C4: the assistant message appended on a LimitReached abort carries one
\* tool result, in call order, for each call of the turn that was dispatched
\* successfully before the limit was hit.
C4_PartialResultsKept ==
    pc = "LIMIT_REACHED"
        => /\ Len(Last(Messages).ToolResults) = idx - 1
           /\ \A i \in 1..(idx - 1) :
                 Last(Messages).ToolResults[i].ID = Last(Messages).ToolCalls[i].ID

\* C5: a registered tool with limit L >= 1 is invoked at most L times in a
\* Run; a dispatch of it is allowed and invoked while fewer than L
\* invocations succeeded, only the dispatch after L successes yields
\* LimitReached; a Run that called add once under limit 1 and finished has a
\* successful result and the add count 1.
C5_ExactlyLimitInvocations ==
    [][/\ \A n \in tools :
            GetToolLimit(n) >= 1
                => /\ Invoked(n)' <= GetToolLimit(n)
                   /\ (pc' = "LIMIT_REACHED" /\ currentToolCall'.ToolName = n)
                         => Succeeded(n)' = GetToolLimit(n)
       /\ \A n \in tools :
            (/\ pc = "DISPATCHING_TOOLS"
             /\ currentToolCall.ToolName = n
             /\ GetToolLimit(n) >= 1
             /\ Invoked(n) < GetToolLimit(n))
               => pc' # "LIMIT_REACHED" /\ Invoked(n)' = Invoked(n) + 1
       /\ (/\ pc' = "DONE"
           /\ GetToolLimit("add") = 1
           /\ Len(toolLog') = 1
           /\ toolLog'[1].name = "add")
             => err' = Nil /\ result'.hasData /\ usage'["add"] = 1]_vars

C5_Witness ==
    /\ pc = "LIMIT_REACHED"
    /\ calls = 2
    /\ GetToolLimit(currentToolCall.ToolName) = DefaultToolLimit
    /\ Succeeded(currentToolCall.ToolName) = DefaultToolLimit

\* C6: the ledger entry of n is the number of invocations of n that have
\* returned successfully so far: all entries are 0 when Run begins, an entry
\* grows by exactly 1 with each successful dispatch, no other step changes
\* the ledger, and no entry ever decreases.
C6_LedgerCountsSuccesses ==
    [][/\ (pc = "INIT" /\ pc' # "INIT") => usage' = ZeroUsage
       /\ \A n \in Names : usage'[n] = Succeeded(n)'
       /\ \A n \in Names : usage'[n] >= usage[n]
       /\ usage' # usage
            => /\ pc = "DISPATCHING_TOOLS"
               /\ usage' = [usage EXCEPT ![currentToolCall.ToolName] = @ + 1]
               /\ Len(toolLog') = Len(toolLog) + 1
               /\ Last(toolLog').outcome = "ok"
               /\ Last(toolLog').name = currentToolCall.ToolName
       /\ (Len(toolLog') > Len(toolLog) /\ Last(toolLog').outcome = "ok")
            => usage'[Last(toolLog').name] = usage[Last(toolLog').name] + 1
      ]_vars

C6_Witness ==
    /\ pc = "FAILED"
    /\ Len(toolLog) >= 2
    /\ Last(toolLog).outcome = "error"
    /\ usage[Last(toolLog).name] >= 1
    /\ Invoked(Last(toolLog).name) > usage[Last(toolLog).name]

----------------------------------------------------------------------------
\* a step in which an assistant turn was processed without error: the turn
\* was appended and Run went on
TurnCompleted ==
    /\ pc \in {"CALLING_LLM", "DISPATCHING_TOOLS"}
    /\ pc' \in {"CALLING_LLM", "FINALIZING"}
    /\ Len(Messages') > Len(Messages)

\* C7: Run enters FINALIZING only after a turn without tool calls that has
\* End set; a turn with tool calls, dispatched without error, is followed by
\* a re-render of the system prompt and another free-form Call whatever its
\* End flag; a turn without tool calls and without End is followed by
\* another Call too.
C7_FinalOnlyWithoutToolCalls ==
    [][/\ (pc # "FINALIZING" /\ pc' = "FINALIZING")
            => llmMessage'.ToolCalls = <<>> /\ llmMessage'.End
       /\ (TurnCompleted /\ llmMessage'.ToolCalls # <<>>)
            => /\ pc' = "CALLING_LLM"
               /\ Messages'[1].Content = createSystemPrompt(usage')
       /\ (TurnCompleted /\ llmMessage'.ToolCalls = <<>> /\ ~llmMessage'.End)
            => pc' = "CALLING_LLM"]_vars

\* C7 as amended: Run enters FINALIZING only after a turn that has End set,
\* whether or not it carried tool calls, and every such turn processed
\* without error enters FINALIZING; a turn without End, with or without tool
\* calls, is followed by a re-render of the system prompt with the current
\* ledger and another free-form Call.
C7_FinalIffEnd ==
    [][/\ (pc # "FINALIZING" /\ pc' = "FINALIZING")
            => TurnCompleted /\ llmMessage'.End
       /\ (TurnCompleted /\ llmMessage'.End)
            => /\ pc' = "FINALIZING"
               /\ Messages'[Len(Messages') - 1]
                     = [llmMessage' EXCEPT !.ToolResults =
                            IF llmMessage'.ToolCalls = <<>> THEN <<>> ELSE results']
               /\ Last(Messages') = NewLLMMessage("user", outputPrompt)
       /\ (TurnCompleted /\ ~llmMessage'.End)
            => /\ pc' = "CALLING_LLM"
               /\ Last(Messages').ToolCalls = llmMessage'.ToolCalls
               /\ Messages'[1].Content = createSystemPrompt(usage')]_vars

C7_Witness ==
    /\ pc = "FINALIZING"
    /\ llmMessage.End
    /\ llmMessage.ToolCalls # <<>>
    /\ Len(llmMessage.ToolResults) = Len(llmMessage.ToolCalls)

\* C8: when the text of the final structured-output call does not decode
\* into T, Run returns no result and an error of kind InvalidResultSchema
\* that is not of kind LLMCallError.
C8_DecodeFailureIsInvalidResultSchema ==
    (pc = "FAILED" /\ Mentions(err, UnmarshalFailure))
        => /\ result.isNil
           /\ Is(err, ErrInvalidResultSchema)
           /\ ~Is(err, ErrLLMCall)

\* C9: a call of an unregistered tool ends Run in FAILED with an error the
\* caller identifies as ToolNotFound and not as ToolError or LimitReached;
\* the call invokes nothing and leaves the ledger unchanged, and no later
\* call or gateway call follows.
C9_ToolNotFoundIdentified ==
    [][/\ (/\ pc = "DISPATCHING_TOOLS"
           /\ currentToolCall.ToolName \notin tools)
            => /\ pc' = "FAILED"
               /\ result'.isNil
               /\ toolLog' = toolLog
               /\ usage' = usage
               /\ calls' = calls
               /\ Is(err', ErrToolNotFound)
               /\ ~Is(err', ErrToolError)
               /\ ~Is(err', ErrLimitReached)
       /\ pc = "FAILED" => vars' = vars]_vars

C11_InvalidArgumentsIdentified ==
    [][/\ (Len(toolLog') > Len(toolLog) /\ Last(toolLog').outcome = "badargs")
            => /\ pc' = "FAILED"
               /\ result'.isNil
               /\ ~Last(toolLog').executed
               /\ usage' = usage
               /\ calls' = calls
               /\ Is(err', ErrInvalidArguments)
       /\ pc = "FAILED" => vars' = vars]_vars

\* C12: when a free-form gateway Call fails, Run ends in FAILED with an
\* error of kind LLMCallError and nothing is retried: after the failing Call
\* no gateway operation and no tool invocation happens in that Run.
C12_GatewayFailureFatal ==
    [][/\ (pc = "CALLING_LLM" /\ err' # Nil)
            => /\ pc' = "FAILED"
               /\ calls' = calls + 1
               /\ result'.isNil
               /\ Is(err', ErrLLMCall)
               /\ Mentions(err', GatewayFailure)
               /\ toolLog' = toolLog
               /\ Messages' = Messages
       /\ pc = "FAILED"
            => /\ pc' = "FAILED"
               /\ calls' = calls
               /\ toolLog' = toolLog]_vars

C12_Witness ==
    /\ pc = "FAILED"
    /\ calls = 2
    /\ Len(toolLog) >= 1
    /\ Is(err, ErrLLMCall)
    /\ Mentions(err, GatewayFailure)
    /\ ~Mentions(err, ErrStructuredOutput)

\* C13 as stated: when Run ends in FAILED after the conversation has been
\* initialised, the caller receives the history accumulated so far, the
\* error and an absent structured result.
C13_HistoryReturnedOnFailure ==
    (pc = "FAILED" /\ Messages # <<>>)
        => /\ err # Nil
           /\ ~result.isNil
           /\ ~result.hasData
           /\ result.Messages = Messages

\* C13 amended: when Run ends in FAILED the caller receives the error and a
\* nil result, hence no history, even after the conversation has been
\* initialised; the history is returned only with LimitReached (without
\* structured result) and on success.
C13_NoHistoryOnFailure ==
    /\ pc = "FAILED"
        => /\ err # Nil
           /\ ~Is(err, ErrLimitReached)
           /\ result = NilResult
    /\ pc = "LIMIT_REACHED"
        => /\ Is(err, ErrLimitReached)
           /\ ~result.isNil
           /\ ~result.hasData
           /\ result.Messages = Messages
    /\ pc = "DONE"
        => /\ err = Nil
           /\ ~result.isNil
           /\ result.Messages = Messages

C13_Witness ==
    /\ pc = "FAILED"
    /\ Len(Messages) >= 3
    /\ Is(err, ErrToolError)
    /\ result.isNil

\* C14: within one assistant turn the tools are invoked one at a time in the
\* order of the turn's tool calls, call i+1 starting only after call i has
\* returned, and the collected tool results are in that same order.
C14_SequentialInOrder ==
    /\ \A i \in DOMAIN toolLog :
          /\ toolLog[i].call =
                1 + Cardinality({j \in 1..(i - 1) :
                                    toolLog[j].turn = toolLog[i].turn})
          /\ \A j \in 1..(i - 1) :
                /\ toolLog[j].turn <= toolLog[i].turn
                /\ toolLog[j].turn = toolLog[i].turn
                      => toolLog[j].outcome = "ok"
          /\ toolLog[i].turn = calls
                => toolLog[i].name =
                      llmMessage.ToolCalls[toolLog[i].call].ToolName
    /\ pc = "DISPATCHING_TOOLS" => Len(results) = idx - 1
    /\ llmMessage.ToolCalls # <<>>
          => \A i \in DOMAIN results :
                results[i].ID = llmMessage.ToolCalls[i].ID

C14_Witness ==
    /\ Len(results) = 2
    /\ Len(toolLog) = 4
    /\ toolLog[2].turn = 1
    /\ toolLog[2].name # toolLog[1].name
    /\ toolLog[4].turn = 2
    /\ toolLog[4].call = 2

C16_HistoryAppendOnly ==
    [][/\ (Messages = <<>> /\ Messages' # <<>>)
            => /\ Len(Messages') = 2
               /\ Messages'[1] =
                     NewLLMMessage("system",
                         Render(systemPrompt,
                                [tools |-> tools, tools_usage |-> EmptyMap,
                                 calling_limits |-> limits,
                                 behavior |-> "behavior"]))
               /\ \E input \in Inputs :
                     Messages'[2] = NewLLMMessage("user", Text(input))
       /\ Messages # <<>>
            => /\ Len(Messages') >= Len(Messages)
               /\ \A k \in 2..Len(Messages) : Messages'[k] = Messages[k]
               /\ Messages'[1].Type = "system"
               /\ Messages'[1] =
                     [Messages[1] EXCEPT !.Content = Messages'[1].Content]]_vars

C16_Witness ==
    /\ Len(Messages) >= 4
    /\ Messages[1].Type = "system"
    /\ Messages[1].Content.args.tools_usage # EmptyMap
    /\ Messages[3].ToolResults # <<>>

\* the ledger as it stood when the last free-form gateway call was made
UsageBeforeTurn ==
    [n \in Names |->
        usage[n] - Cardinality({i \in DOMAIN toolLog :
                                   /\ toolLog[i].turn = calls
                                   /\ toolLog[i].name = n
                                   /\ toolLog[i].outcome = "ok"})]

\* C17 as stated: at every gateway invocation of a Run, the free-form calls
\* and the final structured-output call, the content of message 0 is the
\* system template rendered with the ledger as it stands at that moment.
C17_SystemPromptFreshAtEveryCall ==
    pc \in {"CALLING_LLM", "FINALIZING"}
        => Messages[1].Content = createSystemPrompt(usage)

\* C17 amended: at every free-form gateway call message 0 is the system
\* template rendered with the ledger of that moment; at the final
\* structured-output call message 0 is not re-rendered and still shows the
\* ledger as it stood at the last free-form call, without the dispatches of
\* the final turn.
C17_SystemPromptFreshAtFreeFormCalls ==
    /\ pc = "CALLING_LLM" => Messages[1].Content = createSystemPrompt(usage)
    /\ pc = "FINALIZING"
          => Messages[1].Content = createSystemPrompt(UsageBeforeTurn)

C17_Witness ==
    /\ pc = "FINALIZING"
    /\ calls = 2
    /\ Messages[1].Content # createSystemPrompt(usage)
    /\ Messages[1].Content # createSystemPrompt(ZeroUsage)

\* C18: finalisation appends one user message, the rendered output
\* instruction, and makes one structured-output call on the full history,
\* never retried: a failed or malformed response ends the run in FAILED, a
\* decodable one ends it in DONE with the decoded value and the full history.
C18_FinalisationOnce ==
    [][/\ (pc # "FINALIZING" /\ pc' = "FINALIZING")
            => /\ Len(Messages') = Len(Messages) + 2
               /\ Messages'[Len(Messages) + 1].Type = "assistant"
               /\ Last(Messages') = NewLLMMessage("user", outputPrompt)
       /\ pc = "FINALIZING"
            => /\ Messages' = Messages
               /\ calls' = calls
               /\ toolLog' = toolLog
               /\ \/ /\ pc' = "FAILED"
                     /\ result'.isNil
                     /\ err' # Nil
                  \/ /\ pc' = "DONE"
                     /\ err' = Nil
                     /\ result'.hasData
                     /\ \E text \in StructTexts :
                           /\ Unmarshal(text).err = Nil
                           /\ result'.Data = Unmarshal(text).val
                     /\ result'.Messages = Messages
       /\ pc \in {"DONE", "FAILED"} => vars' = vars]_vars

C18_Witness ==
    /\ pc = "DONE"
    /\ result.hasData
    /\ result.Data = 8
    /\ Len(result.Messages) = 5
    /\ Last(result.Messages) = NewLLMMessage("user", outputPrompt)
    /\ Cardinality({k \in DOMAIN Messages : Messages[k].Type = "user"}) = 2

\* C20: the limit of a name is the limit explicitly configured for it when
\* one was set, and otherwise the agent's default limit, which is 3 unless
\* the caller configured another default.
C20_LimitFor ==
    /\ limits = EmptyMap
    /\ defaultToolLimit = DefaultToolLimit
    /\ \A n \in Names : GetToolLimit(n) = DefaultToolLimit
    /\ [][/\ \A n \in Names :
                GetToolLimit(n)' = IF n \in DOMAIN limits' THEN limits'[n]
                                   ELSE defaultToolLimit'
          /\ DOMAIN limits \subseteq DOMAIN limits'
          /\ (defaultToolLimit' # defaultToolLimit \/ limits' # limits)
                => /\ pc = "NEW"
                   /\ options' = options - 1
          /\ (defaultToolLimit' # defaultToolLimit) => limits' = limits
          /\ (limits' # limits) => defaultToolLimit' = defaultToolLimit]_vars

C20_Witness ==
    /\ pc = "LIMIT_REACHED"
    /\ tools = {"hash"}
    /\ DOMAIN limits = {"add"}
    /\ defaultToolLimit \notin {DefaultToolLimit, limits["add"]}
    /\ GetToolLimit("add") = limits["add"]
    /\ GetToolLimit("hash") = defaultToolLimit
    /\ usage["hash"] = defaultToolLimit

\* what the call r of Run can observe and what it returns
View(r) == [run |-> runs[r], history |-> History(r), ledger |-> Ledger(r)]

\* C19: concurrent Runs on one agent each have their own history and ledger:
\* a step of one Run changes nothing another Run observes, the ledger of a
\* Run counts its own successful invocations only, and a Run hits a limit
\* only by its own invocations.
C19_RunsIsolated ==
    [][/\ \A r, q \in RunIds :
             (r # q /\ View(r)' # View(r)) => View(q)' = View(q)
       /\ \A r, q \in RunIds :
             (r # q /\ runs'[r].state # 0 /\ runs'[q].state # 0)
                => /\ runs'[r].state # runs'[q].state
                   /\ runs'[r].usage # runs'[q].usage
       /\ \A r \in RunIds :
             /\ Ledger(r)' = runs'[r].succeeded
             /\ (runs[r].pc = "DISPATCHING_TOOLS"
                    /\ runs'[r].pc = "LIMIT_REACHED")
                   => \E n \in tools : runs[r].succeeded[n] >= GetToolLimit(n)
             /\ runs'[r].pc \in {"LIMIT_REACHED", "DONE"}
                   => runs'[r].result.Messages = History(r)'
       /\ agentVars' = agentVars]_vars

C19_Witness ==
    /\ GetToolLimit("add") = 1
    /\ \A r \in RunIds :
          /\ runs[r].pc = "DONE"
          /\ runs[r].succeeded["add"] = 1
          /\ Len(History(r)) = 4

C22_NoToolAfterCancel ==
    [][(cancelled /\ pc = "DISPATCHING_TOOLS")
          => /\ toolLog' = toolLog
             /\ pc' = "FAILED"
             /\ ~result'.hasData
             /\ Mentions(err', ContextCanceled)]_vars

\* the entries of mwLog made for the same turn as entry i, before it
EarlierInTurn(i) == {j \in 1..(i - 1) : mwLog[j].turn = mwLog[i].turn}

\* a middleware has just rejected the current turn
Rejected == mwLog # <<>> /\ Last(mwLog).verdict = "reject"

\* C23: for every assistant turn that reaches the chain (with or without
\* tool calls, final or not) the registered middlewares are invoked in
\* registration order, one after the other, each receiving the message the
\* previous one returned; when none rejects, each is invoked exactly once.
C23_ChainInRegistrationOrder ==
    /\ \A i \in DOMAIN mwLog :
          /\ mwLog[i].pos = Cardinality(EarlierInTurn(i)) + 1
          /\ mwLog[i].mw = middlewares[mwLog[i].pos]
          /\ \A j \in EarlierInTurn(i) : mwLog[j].verdict # "reject"
          /\ mwLog[i].input =
                IF mwLog[i].pos = 1 THEN "assistant"
                ELSE IF mwLog[i - 1].verdict = "transform" THEN mwLog[i - 1].mw
                ELSE mwLog[i - 1].input
    /\ pc \in {"CALLING_LLM", "FINALIZING", "DONE"}
          => \A t \in 1..calls :
                Cardinality({i \in DOMAIN mwLog : mwLog[i].turn = t})
                    = Len(middlewares)

C23_Witness ==
    /\ pc = "DONE"
    /\ Len(middlewares) = 3
    /\ calls = 2
    /\ Len(mwLog) = 6
    /\ Messages[3].ToolCalls # <<>>
    /\ Messages[4].ToolCalls = <<>>
    /\ mwLog[2].input = middlewares[1]
    /\ mwLog[3].input = middlewares[1]

\* C24: when a middleware returns an error for a turn, Run ends at once with
\* an error of kind MiddlewareError carrying the middleware's cause and
\* distinct from ToolError, LLMCallError and LimitReached; no later
\* middleware runs, no gateway call follows and the result is nil.
C24_MiddlewareErrorFatal ==
    [][/\ (Len(mwLog') > Len(mwLog) /\ Last(mwLog').verdict = "reject")
            => /\ pc' = "FAILED"
               /\ result' = NilResult
               /\ Is(err', ErrMiddlewareError)
               /\ Mentions(err', ErrAccessDenied)
               /\ ~Is(err', ErrToolError)
               /\ ~Is(err', ErrLLMCall)
               /\ ~Is(err', ErrLimitReached)
               /\ calls' = calls
       /\ pc = "FAILED"
            => /\ pc' = "FAILED"
               /\ mwLog' = mwLog
               /\ calls' = calls]_vars

C24_Witness ==
    /\ pc = "FAILED"
    /\ Len(middlewares) = 3
    /\ Rejected
    /\ Last(mwLog).pos = 2
    /\ Is(err, ErrMiddlewareError)

\* C25: when a middleware rejects a turn that carries tool calls, none of
\* the tools requested in that turn has been invoked.
C25_RejectedTurnInvokesNothing ==
    (pc = "FAILED" /\ Rejected /\ llmMessage.ToolCalls # <<>>)
        => \A i \in DOMAIN toolLog : toolLog[i].turn # Last(mwLog).turn

Unresolved == Placeholders(systemPrompt) \ DOMAIN SystemArgs(usage)

\* C27 as stated: a system template with an unresolved placeholder fails to
\* render, so that Run fails before any gateway call.
C27_UnresolvedPlaceholderFails ==
    (Unresolved # {} /\ pc # "INIT")
        => /\ pc = "FAILED"
           /\ calls = 0
           /\ Mentions(err, New("failed to create system prompt"))

\* C27, amended: a placeholder with no matching key is not a rendering
\* error; it renders as the text "<no value>", and a Run whose system
\* template has one passes initialisation with that text in its system
\* message and goes on to the gateway call.
C27_UnresolvedPlaceholderPrintsNoValue ==
    Unresolved # {}
        => /\ RenderError(systemPrompt) = Nil
           /\ \A k \in Unresolved :
                 createSystemPrompt(usage).args[k] = "<no value>"
           /\ createInitStateError = Nil
           /\ pc = "FAILED"
                 => ~Mentions(err, New("failed to create system prompt"))
           /\ pc \notin {"INIT", "FAILED"} \/ calls > 0
                 => /\ Len(Messages) >= 2
                    /\ Messages[1].Type = "system"
                    /\ \A k \in Unresolved :
                          Messages[1].Content.args[k] = "<no value>"

C27_Witness ==
    /\ systemPrompt = "custom"
    /\ pc = "DONE"
    /\ calls = 2
    /\ Messages[1].Content.args["Behavior"] = "<no value>"

\* C28: if the system template renders to empty content at initialisation,
\* Run fails with EmptySystemPrompt before any gateway call and before any
\* tool invocation, and returns no result.
C28_EmptySystemPromptFatal ==
    (/\ RenderError(systemPrompt) = Nil
     /\ createSystemPrompt(ZeroUsage) = EmptyText
     /\ pc \notin {"NEW", "NO_AGENT", "INIT"})
        => /\ pc = "FAILED"
           /\ err = ErrEmptySystemPrompt
           /\ result = NilResult
           /\ calls = 0
           /\ toolLog = <<>>
           /\ Messages = <<>>

C28_Witness ==
    /\ pc = "FAILED"
    /\ Is(err, ErrEmptySystemPrompt)
    /\ systemPrompt = ""
    /\ tools # {}

\* a name, respectively a description, that the specification calls invalid
NameInvalid(name) ==
    name.chars = 0 \/ ~name.snake \/ name.chars > maxNameLength

DescriptionInvalid(description) ==
    description.chars = 0 \/ description.chars > maxDescriptionLength

\* C30: creating a tool definition fails, returning no usable tool, exactly
\* when its name is invalid (empty, not matching the pattern, longer than 64
\* characters), its description is invalid (empty or longer than 1024
\* characters), its schema is absent or its invoke function is absent; the
\* checks apply in the order name, description, schema, invoke, the first
\* failing one determining the error.
C30_ToolDefinitionValidated ==
    newTool.called
        => /\ newTool.err # Nil
                <=> \/ NameInvalid(tool.Name)
                    \/ DescriptionInvalid(tool.Description)
                    \/ tool.ParametersSchema = "nil"
                    \/ tool.Call = "nil"
           /\ newTool.err # Nil => newTool.tool = ZeroTool
           /\ newTool.err = Nil => newTool.tool = tool
           /\ NameInvalid(tool.Name) => Mentions(newTool.err, New("tool"))
           /\ (~NameInvalid(tool.Name) /\ DescriptionInvalid(tool.Description))
                => Mentions(newTool.err, New("description"))
           /\ (/\ ~NameInvalid(tool.Name)
               /\ ~DescriptionInvalid(tool.Description)
               /\ tool.ParametersSchema = "nil")
                => Mentions(newTool.err, New("parameters schema"))

\* C31: NewAgentResult(data, messages) returns a nil result and an error of
\* kind ErrInvalidResultSchema when data is nil or messages is empty;
\* otherwise it returns a result holding exactly the given data and messages
\* and a nil error.
C31_NewAgentResultValidated ==
    newResult.called
        => IF resultArgs.data.isNil \/ resultArgs.messages = <<>>
           THEN /\ newResult.result.isNil
                /\ Is(newResult.err, ErrInvalidResultSchema)
           ELSE /\ ~newResult.result.isNil
                /\ newResult.result.hasData
                /\ newResult.result.Data = resultArgs.data.value
                /\ newResult.result.Messages = resultArgs.messages
                /\ newResult.err = Nil

C31_Witness ==
    /\ newResult.called
    /\ ~resultArgs.data.isNil
    /\ resultArgs.data.value = 0
    /\ resultArgs.messages = <<>>
    /\ newResult.result.isNil

\* the call toolCall would be refused by the limit check with the ledger u
OverLimit(toolCall, u) ==
    /\ toolCall.ToolName \in tools
    /\ u[toolCall.ToolName] >= GetToolLimit(toolCall.ToolName)

\* C32: within one turn the first error in call order decides the outcome:
\* the dispatch that ends the Run ends it in LIMIT_REACHED exactly when the
\* call being dispatched is over its limit, whatever the later calls of the
\* turn would have produced, and in FAILED otherwise; no later call of the
\* turn is invoked and the ledger is left as it was.
C32_FirstErrorDecides ==
    [][/\ (pc = "DISPATCHING_TOOLS" /\ pc' \in {"FAILED", "LIMIT_REACHED"})
            => /\ pc' = "LIMIT_REACHED" <=> OverLimit(currentToolCall, usage)
               /\ pc' = "LIMIT_REACHED" <=> Is(err', ErrLimitReached)
               /\ \A i \in DOMAIN toolLog' :
                     toolLog'[i].turn = calls => toolLog'[i].call <= idx
               /\ usage' = usage
       /\ pc \in {"FAILED", "LIMIT_REACHED"}
            => /\ pc' = pc
               /\ toolLog' = toolLog
               /\ usage' = usage]_vars

\* a turn whose first call names an unregistered tool and whose second call
\* is over its limit has ended in FAILED
C32_Witness ==
    /\ pc = "FAILED"
    /\ Is(err, ErrToolError)
    /\ idx = 1
    /\ Len(llmMessage.ToolCalls) = 2
    /\ llmMessage.ToolCalls[1].ToolName \notin tools
    /\ OverLimit(llmMessage.ToolCalls[2], usage)

\* C33: every return of Run has exactly one of three shapes: a nil error
\* with a result whose Data is present and whose history is non-empty; the
\* LimitReached error with a non-nil result whose Data is absent and whose
\* history is non-empty; any other error with a nil result.  Data is present
\* if and only if the error is nil.
C33_ReturnShapes ==
    /\ pc = "DONE"
          => /\ err = Nil
             /\ ~result.isNil
             /\ result.hasData
             /\ result.Messages # <<>>
    /\ pc = "LIMIT_REACHED"
          => /\ err = ErrLimitReached
             /\ ~result.isNil
             /\ ~result.hasData
             /\ result.Messages # <<>>
    /\ pc = "FAILED"
          => /\ err # Nil
             /\ ~Is(err, ErrLimitReached)
             /\ result = NilResult
    /\ Terminal => (result.hasData <=> err = Nil)
    /\ ~Terminal => (result = NilResult /\ err = Nil)

C33_Witness ==
    /\ pc = "LIMIT_REACHED"
    /\ ~result.isNil
    /\ ~result.hasData
    /\ Len(result.Messages) = 4
    /\ Invoked("add") = 1

\* the call r of Run executes createInitState successfully in this step
Starts(r) == runs[r].pc = "INIT" /\ runs'[r].pc = "CALLING_LLM"

\* C34: no step of a Run modifies the agent's configuration (tools, explicit
\* limits, default limit, system template), so that a Run started on the same
\* agent after other Runs dispatched tools starts with the system prompt
\* rendered from that configuration with an empty usage, and with an empty
\* ledger.
C34_RunLeavesAgentUnchanged ==
    [][/\ tools' = tools
       /\ limits' = limits
       /\ defaultToolLimit' = defaultToolLimit
       /\ systemPrompt' = systemPrompt
       /\ \A r \in RunIds :
             Starts(r)
                => /\ \A n \in Names : Ledger(r)'[n] = 0
                   /\ History(r)'[1].Type = "system"
                   /\ History(r)'[1].Content.text = systemPrompt
                   /\ History(r)'[1].Content.args.tools = tools
                   /\ History(r)'[1].Content.args.calling_limits = limits
                   /\ History(r)'[1].Content.args.tools_usage = EmptyMap]_vars

\* the second Run has started after the first one ended, the first having
\* invoked add
C34_Witness ==
    /\ runs[1].pc = "DONE"
    /\ runs[1].succeeded["add"] = 1
    /\ runs[2].pc = "CALLING_LLM"
    /\ runs[2].calls = 0
    /\ Ledger(2) = ZeroUsage
    /\ Len(History(2)) = 2

RECURSIVE SumOfLimits(_)
\* the sum of the limits of the tools in S
SumOfLimits(S) ==
    IF S = {} THEN 0
    ELSE LET n == CHOOSE x \in S : TRUE
         IN  GetToolLimit(n) + SumOfLimits(S \ {n})

\* every assistant turn of the Run so far carried at least one tool call
EveryTurnCarriesCalls ==
    /\ calls > 0 => llmMessage.ToolCalls # <<>>
    /\ \A i \in DOMAIN Messages :
          Messages[i].Type = "assistant" => Messages[i].ToolCalls # <<>>

\* C35: the number of tool invocations of a Run is at most the sum of the
\* limits of the registered tools, and a Run whose turns all carry a tool
\* call makes at most that sum plus one free-form gateway calls.
C35_InvocationsBoundedBySumOfLimits ==
    pc \notin {"NEW", "NO_AGENT", "INIT"}
        => /\ Len(toolLog) <= SumOfLimits(tools)
           /\ EveryTurnCarriesCalls => calls <= SumOfLimits(tools) + 1

\* the limit the options configured for tool n: the value WithToolLimit
\* stored for n, or else the value of the default
ConfiguredLimit(n) ==
    IF n \in DOMAIN limits THEN limits[n] ELSE defaultToolLimit

\* C36: a tool whose configured limit, explicit or default, is zero or
\* negative is never invoked: such limits are kept as configured, its ledger
\* entry stays 0 and a dispatch of a call to it yields LimitReached.
C36_NonPositiveLimitNeverInvoked ==
    /\ [](pc \notin {"NEW", "NO_AGENT"}
            => \A n \in tools :
                  ConfiguredLimit(n) <= 0 => (Invoked(n) = 0 /\ usage[n] = 0))
    /\ [][(/\ pc = "DISPATCHING_TOOLS"
           /\ currentToolCall.ToolName \in tools
           /\ ConfiguredLimit(currentToolCall.ToolName) <= 0)
          => (/\ pc' = "LIMIT_REACHED"
              /\ Is(err', ErrLimitReached)
              /\ usage' = usage
              /\ toolLog' = toolLog)]_vars

C36_Witness ==
    /\ pc = "LIMIT_REACHED"
    /\ "add" \in tools
    /\ "add" \in DOMAIN limits
    /\ limits["add"] = -1
    /\ calls = 1
    /\ llmMessage.ToolCalls[1].ToolName = "add"
    /\ usage["add"] = 0
    /\ toolLog = <<>>

\* C37: on successful completion after k assistant turns the returned
\* history has length k + 3: the system message, the input user message, the
\* k assistant messages in the order the gateway produced them and, last,
\* the user-role output instruction; the structured answer is not appended.
C37_HistoryOfSuccess ==
    /\ [](pc = "DONE"
            => /\ Len(result.Messages) = calls + 3
               /\ result.Messages[1].Type = "system"
               /\ result.Messages[2].Type = "user"
               /\ result.Messages[2].Content.text \in Inputs
               /\ \A i \in 3..(calls + 2) :
                     result.Messages[i].Type = "assistant"
               /\ result.Messages[calls + 2] = llmMessage
               /\ Last(result.Messages) = NewLLMMessage("user", outputPrompt))
    /\ [][TurnCompleted
             => /\ Messages'[calls' + 2] = llmMessage'
                /\ \A i \in 2..(calls' + 1) : Messages'[i] = Messages[i]]_vars

C37_Witness ==
    /\ pc = "DONE"
    /\ calls = 2
    /\ Len(result.Messages) = 5
    /\ result.Messages[3].ToolCalls # <<>>
    /\ result.Messages[4].ToolCalls = <<>>
    /\ result.hasData

\* the positions of applied holding an explicit limit for n, respectively a
\* default limit
ExplicitAt(n) ==
    {i \in DOMAIN applied : applied[i].kind = "limit" /\ applied[i].name = n}

DefaultAt == {i \in DOMAIN applied : applied[i].kind = "default"}

LastOf(S) == CHOOSE i \in S : \A j \in S : j <= i

\* C38: the effective limit of a name does not depend on the order of the
\* explicit-limit and default-limit options: it is the explicit limit
\* applied last for the name if there is one, wherever the default options
\* stand, and otherwise the default applied last, or 3 when there is none.
C38_LimitOrderIndependent ==
    \A n \in Names :
        GetToolLimit(n) =
            IF ExplicitAt(n) # {} THEN applied[LastOf(ExplicitAt(n))].limit
            ELSE IF DefaultAt # {} THEN applied[LastOf(DefaultAt)].limit
            ELSE DefaultToolLimit

\* an explicit limit for add, then a default, then another explicit limit
\* for add
C38_Witness ==
    /\ Len(applied) = 3
    /\ ExplicitAt("add") = {1, 3}
    /\ DefaultAt = {2}
    /\ applied[1].limit # applied[3].limit
    /\ applied[2].limit # applied[3].limit
    /\ GetToolLimit("add") = applied[3].limit
    /\ GetToolLimit("hash") = applied[2].limit

====
